---------------------------- MODULE Spec2Model ----------------------------
(***************************************************************************)
(* The moderation / notification workflow of the campus Q&A helpdesk:      *)
(* the OTP engine (utils.py), block / unblock (utils.py), the question and *)
(* answer lifecycle and the admin deletions (routes.py), and the creation  *)
(* of users at the end of registration (auth.py).                          *)
(*                                                                         *)
(* The persistent store is the set of rows of each table of models.py.     *)
(* The specifications share the variables:                                 *)
(*   SpecOtp      create_otp / verify_otp called one after the other       *)
(*   SpecOtpConc  the same two functions run statement by statement by     *)
(*                several workers, each in its own database transaction    *)
(*   SpecPassword validate_password on the passwords of a form             *)
(*   Spec         the request handlers of routes.py and the user creation  *)
(*                of auth.py, one request at a time                        *)
(*   SpecRead     the same with mark_notification_read, on fewer accounts  *)
(*   SpecAuth     registration by several browser sessions                 *)
(*   SpecReset    password reset by several browser sessions               *)
(*   SpecConc     block, unblock, ask and answer run statement by          *)
(*                statement by several workers                             *)
(***************************************************************************)
EXTENDS Integers, Sequences, FiniteSets, TLC

VARIABLES
    users,          \* rows of table users            (models.py User)
    otps,           \* rows of table otps             (models.py OTP)
    questions,      \* rows of table questions        (models.py Question)
    answers,        \* rows of table answers          (models.py Answer)
    blocks,         \* rows of table blocked_users    (models.py BlockedUser)
    notifications,  \* rows of table notifications    (models.py Notification)
    now,            \* datetime.utcnow(), in minutes
    resp,           \* the last call of a function of utils.py, and its result
    last,           \* the last request that committed, with its response
    backend,        \* which kind of database DATABASE_URI names
    otpSeq,         \* the id sequence of table otps on a database server
    dbLock,         \* the worker holding SQLite's write lock, 0 when free
    pc,             \* per worker: the statement it is about to run
    loc             \* per worker: the local variables of the running call
                    \* (SpecAuth: the session of the worker's browser)

vars == <<users, otps, questions, answers, blocks, notifications, now, resp,
          last, backend, otpSeq, dbLock, pc, loc>>

storeVars == <<users, questions, answers, blocks, notifications, last>>
workerVars == <<backend, otpSeq, dbLock, pc, loc>>

---------------------------------------------------------------------------
\* Bounds of the model

MaxOtps == 2        \* the largest id given in table otps
MaxNow == 11        \* the clock stops here (minutes)
NumWorkers == 2     \* concurrent workers of SpecOtpConc
MaxUsers == 3       \* the largest id given in table users
MaxQuestions == 1   \* the largest id given in table questions
MaxAnswers == 1     \* the largest id given in table answers
MaxBlocks == 1      \* the largest id given in table blocked_users
MaxNotifications == 2   \* the largest id given in table notifications
MaxConcUsers == 2   \* the largest id given in table users in SpecConc
MaxConcBlocks == 2  \* the largest id given in table blocked_users in SpecConc
MaxPwLen == 8       \* the longest password typed from PwChars
MaxRegOtps == 3     \* the largest id given in table otps in SpecAuth
MaxAuthOtps == 4    \* the largest id given in table otps in SpecReset

---------------------------------------------------------------------------
\* Program constants and input domains

OTP_EXPIRY_MINUTES == 10

Emails == {"a@x", "b@x"}
Purposes == {"registration", "password_reset"}

\* generate_otp draws six random digits: any code may come out, and two
\* draws may give the same one.
generate_otp == {"000000", "123456"}

Max(S) == CHOOSE m \in S : \A x \in S : x <= m

\* The id a new row gets: an INTEGER PRIMARY KEY of SQLite is the largest
\* id in the table plus one.
NextId(table) == IF table = {} THEN 1 ELSE Max({r.id : r \in table}) + 1

NoResp ==
    [op |-> "none", actor |-> 0, target |-> 0, email |-> "", purpose |-> "",
     code |-> "", ok |-> FALSE, msg |-> "", deleted |-> {}]

Workers == 1..NumWorkers

NoRow ==
    [id |-> 0, email |-> "", otp_code |-> "", purpose |-> "",
     expires_at |-> 0, is_used |-> FALSE]

\* The locals of a worker that runs nothing.
NoLoc ==
    [op |-> "none", email |-> "", purpose |-> "", code |-> "",
     otp_record |-> NoRow, deleted |-> {}, ok |-> FALSE, msg |-> ""]

NoRequest ==
    [op |-> "none", actor |-> 0, target |-> 0, status |-> 0, row |-> 0,
     mail |-> "none"]

\* The call that ends with result r is now the last one.
Returns(r) == resp' = r

---------------------------------------------------------------------------
\* OTP engine (utils.py)

\* A create_otp that forgets to delete the earlier rows.
InvalidateUnused_KeepsAll(table, email, purpose) == table

\* create_otp: OTP.query.filter_by(email, purpose, is_used=False).delete()
InvalidateUnused(table, email, purpose) ==
    {r \in table : ~(r.email = email /\ r.purpose = purpose /\ ~r.is_used)}

\* create_otp: the new row
NewOtp(id, email, purpose, code, t) ==
    [id |-> id, email |-> email, otp_code |-> code,
     purpose |-> purpose, expires_at |-> t + OTP_EXPIRY_MINUTES,
     is_used |-> FALSE]

\* A verify_otp whose query leaves out the purpose.
OtpMatches_AnyPurpose(table, email, code, purpose) ==
    {r \in table : r.email = email /\ r.otp_code = code /\ ~r.is_used}

\* verify_otp: the rows the query filters; .first() returns one of them
OtpMatches(table, email, code, purpose) ==
    {r \in table : r.email = email /\ r.otp_code = code
                   /\ r.purpose = purpose /\ ~r.is_used}

\* A verify_otp that never looks at the clock.
OtpExpired_Never(r, t) == FALSE

\* verify_otp: datetime.utcnow() > otp_record.expires_at
OtpExpired(r, t) == t > r.expires_at

\* A verify_otp that forgets to mark the row.
MarkUsed_Forgets(table, r) == table

\* verify_otp: otp_record.is_used = True; db.session.commit()
\* (UPDATE otps SET is_used = 1 WHERE id = :id)
MarkUsed(table, r) ==
    {IF x.id = r.id THEN [x EXCEPT !.is_used = TRUE] ELSE x : x \in table}

\* create_otp(email, purpose): every (returned code, table afterwards) the
\* call can produce on `table` at time t, with the new row's id.
create_otp(table, id, t, email, purpose) ==
    LET kept == InvalidateUnused(table, email, purpose) IN
    {[code |-> code,
      table |-> kept \cup {NewOtp(id, email, purpose, code, t)}] :
        code \in generate_otp}

\* verify_otp(email, otp_code, purpose): every (result, table afterwards) the
\* call can produce on `table` at time t.
verify_otp(table, t, email, otp_code, purpose) ==
    LET found == OtpMatches(table, email, otp_code, purpose) IN
    IF found = {}
    THEN {[ok |-> FALSE, msg |-> "Invalid OTP", id |-> 0, table |-> table]}
    ELSE {IF OtpExpired(otp_record, t)
          THEN [ok |-> FALSE, msg |-> "OTP has expired",
                id |-> otp_record.id, table |-> table]
          ELSE [ok |-> TRUE, msg |-> "OTP verified successfully",
                id |-> otp_record.id, table |-> MarkUsed(table, otp_record)] :
            otp_record \in found}

\* One call of create_otp, start to return.
CreateOtp(email, purpose) ==
    LET id == NextId(InvalidateUnused(otps, email, purpose)) IN
    /\ id <= MaxOtps
    /\ \E o \in create_otp(otps, id, now, email, purpose) :
        /\ otps' = o.table
        /\ Returns([NoResp EXCEPT !.op = "create_otp", !.email = email,
                                  !.purpose = purpose, !.code = o.code,
                                  !.ok = TRUE, !.target = id,
                                  !.deleted = {r.otp_code : r \in otps \ o.table}])
    /\ UNCHANGED <<storeVars, now, workerVars>>

\* One call of verify_otp, start to return.
VerifyOtp(email, otp_code, purpose) ==
    /\ \E o \in verify_otp(otps, now, email, otp_code, purpose) :
        /\ otps' = o.table
        /\ Returns([NoResp EXCEPT !.op = "verify_otp", !.email = email,
                                  !.purpose = purpose, !.code = otp_code,
                                  !.ok = o.ok, !.msg = o.msg,
                                  !.target = o.id])
    /\ UNCHANGED <<storeVars, now, workerVars>>

\* Time passes between two calls: exactly the lifetime of an OTP, or one
\* minute more.
Tick ==
    /\ \E d \in {OTP_EXPIRY_MINUTES, OTP_EXPIRY_MINUTES + 1} :
        /\ now + d <= MaxNow
        /\ now' = now + d
    /\ Returns([NoResp EXCEPT !.op = "tick"])
    /\ UNCHANGED <<storeVars, otps, workerVars>>

InitStore ==
    /\ users = {}
    /\ otps = {}
    /\ questions = {}
    /\ answers = {}
    /\ blocks = {}
    /\ notifications = {}
    /\ now = 0
    /\ resp = NoResp
    /\ last = NoRequest

InitOtp ==
    /\ InitStore
    /\ backend = "sqlite"
    /\ otpSeq = 0
    /\ dbLock = 0
    /\ pc = [w \in Workers |-> "idle"]
    /\ loc = [w \in Workers |-> NoLoc]

NextOtp ==
    \/ \E e \in Emails, p \in Purposes : CreateOtp(e, p)
    \/ \E e \in Emails, c \in generate_otp, p \in Purposes : VerifyOtp(e, c, p)
    \/ Tick

SpecOtp == InitOtp /\ [][NextOtp]_vars

---------------------------------------------------------------------------
\* OTP engine, statement by statement (SpecOtpConc).  Each worker serves one
\* request at a time in its own session: a query reads the committed rows,
\* and the session's changes reach the table at db.session.commit().
\* DATABASE_URI chooses the store.  On SQLite (the default) the first
\* writing statement of a transaction takes the database's write lock and
\* holds it until the commit; a database server has no such lock and gives
\* ids from a sequence.

Backends == {"sqlite", "server"}

CanWrite(w) == backend = "sqlite" => dbLock \in {0, w}

BeginCreateOtp(w, email, purpose) ==
    /\ pc[w] \in {"idle", "returned"}
    /\ pc' = [pc EXCEPT ![w] = "create_delete"]
    /\ loc' = [loc EXCEPT ![w] = [NoLoc EXCEPT !.op = "create_otp",
                                              !.email = email,
                                              !.purpose = purpose]]
    /\ UNCHANGED <<storeVars, otps, now, resp, backend, otpSeq, dbLock>>

\* OTP.query.filter_by(email=email, purpose=purpose, is_used=False).delete()
CreateOtpDelete(w) ==
    LET kept == InvalidateUnused(otps, loc[w].email, loc[w].purpose) IN
    /\ pc[w] = "create_delete"
    /\ CanWrite(w)
    /\ backend = "sqlite" => NextId(kept) <= MaxOtps
    /\ dbLock' = IF backend = "sqlite" THEN w ELSE dbLock
    /\ loc' = [loc EXCEPT ![w].deleted = {r.id : r \in otps \ kept}]
    /\ pc' = [pc EXCEPT ![w] = "create_commit"]
    /\ UNCHANGED <<storeVars, otps, now, resp, backend, otpSeq>>

\* otp_code = generate_otp(); ...; db.session.add(new_otp); db.session.commit()
CreateOtpCommit(w) ==
    LET kept == {r \in otps : r.id \notin loc[w].deleted}
        id == IF backend = "sqlite" THEN NextId(kept) ELSE otpSeq + 1 IN
    /\ pc[w] = "create_commit"
    /\ id <= MaxOtps
    /\ \E code \in generate_otp :
        /\ otps' = kept \cup {NewOtp(id, loc[w].email, loc[w].purpose, code,
                                     now)}
        /\ loc' = [loc EXCEPT ![w].code = code, ![w].ok = TRUE]
    /\ otpSeq' = IF backend = "sqlite" THEN otpSeq ELSE id
    /\ dbLock' = 0
    /\ pc' = [pc EXCEPT ![w] = "returned"]
    /\ UNCHANGED <<storeVars, now, resp, backend>>

BeginVerifyOtp(w, email, otp_code, purpose) ==
    /\ pc[w] \in {"idle", "returned"}
    /\ pc' = [pc EXCEPT ![w] = "verify_query"]
    /\ loc' = [loc EXCEPT ![w] = [NoLoc EXCEPT !.op = "verify_otp",
                                              !.email = email,
                                              !.purpose = purpose,
                                              !.code = otp_code]]
    /\ UNCHANGED <<storeVars, otps, now, resp, backend, otpSeq, dbLock>>

\* otp_record = OTP.query.filter_by(...).first(), and the two early returns
VerifyOtpQuery(w) ==
    LET found == OtpMatches(otps, loc[w].email, loc[w].code, loc[w].purpose)
    IN
    /\ pc[w] = "verify_query"
    /\ IF found = {}
       THEN /\ loc' = [loc EXCEPT ![w].msg = "Invalid OTP"]
            /\ pc' = [pc EXCEPT ![w] = "returned"]
       ELSE \E otp_record \in found :
            IF OtpExpired(otp_record, now)
            THEN /\ loc' = [loc EXCEPT ![w].msg = "OTP has expired",
                                       ![w].otp_record = otp_record]
                 /\ pc' = [pc EXCEPT ![w] = "returned"]
            ELSE /\ loc' = [loc EXCEPT ![w].otp_record = otp_record]
                 /\ pc' = [pc EXCEPT ![w] = "verify_commit"]
    /\ UNCHANGED <<storeVars, otps, now, resp, backend, otpSeq, dbLock>>

\* otp_record.is_used = True; db.session.commit(): the UPDATE goes by the
\* row's id, and SQLAlchemy raises StaleDataError when it matches no row.
VerifyOtpCommit(w) ==
    /\ pc[w] = "verify_commit"
    /\ CanWrite(w)
    /\ IF \E x \in otps : x.id = loc[w].otp_record.id
       THEN /\ otps' = MarkUsed(otps, loc[w].otp_record)
            /\ loc' = [loc EXCEPT ![w].ok = TRUE,
                                  ![w].msg = "OTP verified successfully"]
       ELSE /\ otps' = otps
            /\ loc' = [loc EXCEPT ![w].msg = "StaleDataError"]
    /\ pc' = [pc EXCEPT ![w] = "returned"]
    /\ UNCHANGED <<storeVars, now, resp, backend, otpSeq, dbLock>>

InitOtpConc ==
    /\ InitStore
    /\ backend \in Backends
    /\ otpSeq = 0
    /\ dbLock = 0
    /\ pc = [w \in Workers |-> "idle"]
    /\ loc = [w \in Workers |-> NoLoc]

NextOtpConc ==
    \/ \E w \in Workers, e \in Emails, p \in Purposes : BeginCreateOtp(w, e, p)
    \/ \E w \in Workers : CreateOtpDelete(w)
    \/ \E w \in Workers : CreateOtpCommit(w)
    \/ \E w \in Workers, e \in Emails, c \in generate_otp, p \in Purposes :
        BeginVerifyOtp(w, e, c, p)
    \/ \E w \in Workers : VerifyOtpQuery(w)
    \/ \E w \in Workers : VerifyOtpCommit(w)

SpecOtpConc == InitOtpConc /\ [][NextOtpConc]_vars

---------------------------------------------------------------------------
\* Credential policy (utils.py validate_password), SpecPassword.  A password
\* is the sequence of its characters.

Digits == {"0", "1", "2", "3", "4", "5", "6", "7", "8", "9"}

UpperCase ==
    {"A", "B", "C", "D", "E", "F", "G", "H", "I", "J", "K", "L", "M", "N",
     "O", "P", "Q", "R", "S", "T", "U", "V", "W", "X", "Y", "Z"}

LowerCase ==
    {"a", "b", "c", "d", "e", "f", "g", "h", "i", "j", "k", "l", "m", "n",
     "o", "p", "q", "r", "s", "t", "u", "v", "w", "x", "y", "z"}

\* special_characters = "!@#$%^&*()_+-=[]{}|;:,.<>?"
special_characters ==
    {"!", "@", "#", "$", "%", "^", "&", "*", "(", ")", "_", "+", "-", "=",
     "[", "]", "{", "}", "|", ";", ":", ",", ".", "<", ">", "?"}

\* char.isdigit(), char.isupper(), char.islower() on ASCII
isdigit(char) == char \in Digits
isupper(char) == char \in UpperCase
islower(char) == char \in LowerCase

\* A validate_password that accepts seven characters.
TooShort_Seven(password) == Len(password) < 7

\* validate_password: len(password) < 8
TooShort(password) == Len(password) < 8

\* validate_password(password): (is_valid, message)
validate_password(password) ==
    IF TooShort(password)
    THEN [ok |-> FALSE,
          msg |-> "Password must be at least 8 characters long"]
    ELSE IF ~\E i \in DOMAIN password : isdigit(password[i])
    THEN [ok |-> FALSE, msg |-> "Password must contain at least one digit"]
    ELSE IF ~\E i \in DOMAIN password : isupper(password[i])
    THEN [ok |-> FALSE,
          msg |-> "Password must contain at least one uppercase letter"]
    ELSE IF ~\E i \in DOMAIN password : islower(password[i])
    THEN [ok |-> FALSE,
          msg |-> "Password must contain at least one lowercase letter"]
    ELSE IF ~\E i \in DOMAIN password : password[i] \in special_characters
    THEN [ok |-> FALSE,
          msg |-> "Password must contain at least one special character"]
    ELSE [ok |-> TRUE, msg |-> "Password is valid"]

\* The characters the passwords are typed from: one of each class.
PwChars == {"a", "A", "1", "!"}

\* The passwords submitted: every sequence of PwChars up to MaxPwLen, and a
\* few written out, among them passwords with characters of no class.
Passwords ==
    UNION {[1..n -> PwChars] : n \in 0..MaxPwLen}
    \cup {<<"a", "b", "c", "1", "2", "3", "4", "5">>,
          <<"A", "b", "c", "d", "1", "2", "3", "!">>,
          <<"A", "b", "c", "d", "1", "2", "3", "~">>,
          <<"A", "b", "c", "d", "1", "2", "3", " ", "/">>,
          <<"P", "a", "s", "s", "w", "o", "r", "d", "1", "?">>}

\* The store is empty and plays no part; the form holds a password.
InitPassword ==
    /\ users = {} /\ otps = {} /\ questions = {} /\ answers = {}
    /\ blocks = {} /\ notifications = {}
    /\ now = 0
    /\ last = NoRequest
    /\ backend = "sqlite" /\ otpSeq = 0 /\ dbLock = 0
    /\ pc = [w \in Workers |-> "idle"]
    /\ loc = [w \in Workers |-> NoLoc]
    /\ \E password \in Passwords :
        resp = [op |-> "form", password |-> password, ok |-> FALSE,
                msg |-> ""]

\* is_valid, message = validate_password(password)
ValidatePassword ==
    /\ resp.op = "form"
    /\ LET r == validate_password(resp.password) IN
       Returns([resp EXCEPT !.op = "validate_password", !.ok = r.ok,
                            !.msg = r.msg])
    /\ UNCHANGED <<storeVars, otps, now, workerVars>>

NextPassword == ValidatePassword

SpecPassword == InitPassword /\ [][NextPassword]_vars

---------------------------------------------------------------------------
\* Moderation, questions and answers, one request at a time (Spec).
\* The store is the default one of config.py, a SQLite file: ids are the
\* largest id of the table plus one, and foreign keys are not enforced.

\* The address that registers next: one address per id.
EmailFor(id) == IF id = 1 THEN "a@x" ELSE IF id = 2 THEN "b@x" ELSE "c@x"
UserTypes == {"student", "staff"}
UserIds == 1..MaxUsers

\* What request.form.get('content') can hold.
RawContents == {"", "  ", "Need help", "damn"}

\* A handler that forgets .strip().
strip_Noop(text) == text

\* str.strip() of the inputs above
strip(text) == IF text = "  " THEN "" ELSE text

\* A check_profanity that finds nothing.
check_profanity_Off(text) == FALSE

\* check_profanity(text): profanity.contains_profanity(text)
check_profanity(text) == text = "damn"

\* User.query.get(id): the set holding the row, or the empty set
Get(table, id) == {r \in table : r.id = id}

\* is_student_blocked(student_id)
is_student_blocked(student_id) ==
    \E b \in blocks : b.student_id = student_id

BLOCK_MESSAGE ==
    "Your account has been blocked due to policy violations. Please contact support."

UNBLOCK_MESSAGE ==
    "Your account has been unblocked. You can now send messages again."

\* A create_notification that stores nothing.
create_notification_Drops(table, user_id, message, notification_type, related_id) ==
    table

\* create_notification(user_id, message, notification_type, related_id):
\* the table with the new row
create_notification(table, user_id, message, notification_type, related_id) ==
    table \cup {[id |-> NextId(table), user_id |-> user_id,
                 message |-> message,
                 notification_type |-> notification_type,
                 is_read |-> FALSE, related_id |-> related_id]}

\* student.is_blocked = value, when the row exists
SetBlocked(table, student_id, value) ==
    {IF u.id = student_id THEN [u EXCEPT !.is_blocked = value] ELSE u :
        u \in table}

\* An unblock_student that deletes no row.
UnblockedRows_KeepsAll(student_id) == blocks

\* An unblock_student that deletes only the first row of the student
\* (.first() and db.session.delete instead of the bulk delete).
UnblockedRows_OnlyFirst(student_id) ==
    {b \in blocks :
        \/ b.student_id # student_id
        \/ \E x \in blocks : x.student_id = student_id /\ x.id < b.id}

\* unblock_student: BlockedUser.query.filter_by(student_id=...).delete()
UnblockedRows(student_id) == {b \in blocks : b.student_id # student_id}

\* What a request does in the current state: its response and the tables
\* it leaves.  A refused request leaves them as they are.
Refused(status, msg) ==
    [status |-> status, ok |-> FALSE, msg |-> msg, row |-> 0, mail |-> "none",
     users |-> users, blocks |-> blocks, questions |-> questions,
     answers |-> answers, notifications |-> notifications]

RECURSIVE NotifyEach(_, _, _, _, _)
\* for staff in staff_members: create_notification(staff.id, ...), in the
\* order of the ids
NotifyEach(table, user_ids, message, notification_type, related_id) ==
    IF user_ids = {} THEN table
    ELSE LET first == CHOOSE i \in user_ids : \A j \in user_ids : i <= j IN
         NotifyEach(create_notification(table, first, message,
                                        notification_type, related_id),
                    user_ids \ {first}, message, notification_type,
                    related_id)

\* block_student(student_id, staff_id, reason)
block_student(student_id, staff_id) ==
    IF is_student_blocked(student_id)
    THEN Refused(200, "Student is already blocked")
    ELSE [Refused(200, "Student blocked successfully") EXCEPT
            !.ok = TRUE,
            !.row = NextId(blocks),
            !.blocks = blocks \cup {[id |-> NextId(blocks),
                                     student_id |-> student_id,
                                     blocked_by_staff_id |-> staff_id]},
            !.users = SetBlocked(users, student_id, TRUE),
            !.notifications =
                create_notification(notifications, student_id, BLOCK_MESSAGE,
                                    "block", 0)]

\* unblock_student(student_id)
unblock_student(student_id) ==
    [Refused(200, "Student unblocked successfully") EXCEPT
        !.ok = TRUE,
        !.blocks = UnblockedRows(student_id),
        !.users = SetBlocked(users, student_id, FALSE),
        !.notifications =
            create_notification(notifications, student_id, UNBLOCK_MESSAGE,
                                "unblock", 0)]

\* POST /block-student; student_id 0 stands for a missing form field
block_student_route(current_user, student_id) ==
    IF current_user.user_type # "staff"
    THEN Refused(403, "Only staff can block students")
    ELSE IF student_id = 0
    THEN Refused(400, "Student ID required")
    ELSE block_student(student_id, current_user.id)

\* POST /unblock-student
unblock_student_route(current_user, student_id) ==
    IF current_user.user_type # "staff"
    THEN Refused(403, "Only staff can unblock students")
    ELSE IF student_id = 0
    THEN Refused(400, "Student ID required")
    ELSE unblock_student(student_id)

\* An ask_question that skips the blocked check.
AskerIsBlocked_Unchecked(current_user) == FALSE

\* An ask_question that trusts the flag loaded with current_user.
AskerIsBlocked_LoadedFlag(current_user) == current_user.is_blocked

\* ask_question: current_user.is_blocked or is_student_blocked(current_user.id)
AskerIsBlocked(current_user) ==
    current_user.is_blocked \/ is_student_blocked(current_user.id)

\* An answer_question that lets any staff answer a private question.
MayAnswer_Anyone(question, current_user) == TRUE

\* answer_question: not (not question.is_public and
\*                       question.staff_id != current_user.id)
MayAnswer(question, current_user) ==
    question.is_public \/ question.staff_id = current_user.id

\* An answer_question that sets is_answered only for the first answer.
Answered_OnlyFirst(table, question) ==
    {IF q.id = question.id
     THEN [q EXCEPT !.is_answered =
                        ~\E a \in answers : a.question_id = q.id]
     ELSE q : q \in table}

\* An answer_question that forgets question.is_answered = True.
Answered_Forgets(table, question) == table

\* answer_question: question.is_answered = True
Answered(table, question) ==
    {IF q.id = question.id THEN [q EXCEPT !.is_answered = TRUE] ELSE q :
        q \in table}

\* POST /ask-question; staff_id 0 stands for a missing or empty form field
ask_question(current_user, raw, is_public, staff_id) ==
    LET content == strip(raw)
        id == NextId(questions)
        question == [id |-> id, content |-> content, is_public |-> is_public,
                     student_id |-> current_user.id,
                     staff_id |-> IF ~is_public /\ staff_id # 0
                                  THEN staff_id ELSE 0,
                     is_answered |-> FALSE]
        recipients ==
            IF is_public
            THEN {u.id : u \in {x \in users : x.user_type = "staff"}}
            ELSE {u.id : u \in Get(users, question.staff_id)}
        message ==
            IF is_public
            THEN "New public question: \"" \o content \o "...\""
            ELSE "New private question from anonymous student"
    IN
    IF current_user.user_type # "student"
    THEN Refused(403, "Only students can ask questions")
    ELSE IF AskerIsBlocked(current_user)
    THEN Refused(403, "You are blocked and cannot send messages")
    ELSE IF content = ""
    THEN Refused(400, "Question cannot be empty")
    ELSE IF check_profanity(content)
    THEN Refused(400, "Your message contains inappropriate language. Please remove it before sending.")
    ELSE [Refused(200, "Question submitted successfully") EXCEPT
            !.ok = TRUE,
            !.row = id,
            !.questions = questions \cup {question},
            !.notifications = NotifyEach(notifications, recipients, message,
                                         "question", id)]

\* POST /answer-question
answer_question(current_user, question_id, raw) ==
    LET content == strip(raw)
        found == Get(questions, question_id)
        id == NextId(answers)
    IN
    IF current_user.user_type # "staff"
    THEN Refused(403, "Only staff can answer questions")
    ELSE IF content = ""
    THEN Refused(400, "Answer cannot be empty")
    ELSE IF check_profanity(content)
    THEN Refused(400, "Your message contains inappropriate language. Please remove it before sending.")
    ELSE IF found = {}
    THEN Refused(404, "Question not found")
    ELSE LET question == CHOOSE q \in found : TRUE
             student == Get(users, question.student_id)
         IN
         IF ~MayAnswer(question, current_user)
         THEN Refused(403, "You cannot answer this private question")
         ELSE [Refused(200, "Answer submitted successfully") EXCEPT
                 !.ok = TRUE,
                 !.row = id,
                 !.answers = answers \cup
                     {[id |-> id, content |-> content,
                       question_id |-> question.id,
                       staff_id |-> current_user.id]},
                 !.questions = Answered(questions, question),
                 !.notifications =
                     NotifyEach(notifications, {u.id : u \in student},
                                "Your question has been answered", "answer",
                                id)]

\* DELETE /admin/delete-user/<user_id>
admin_delete_user(current_user, user_id) ==
    IF current_user.user_type # "staff"
    THEN Refused(403, "Access denied")
    ELSE IF Get(users, user_id) = {}
    THEN Refused(404, "Not Found")
    ELSE IF user_id = current_user.id
    THEN Refused(400, "Cannot delete your own account")
    ELSE [Refused(200, "User deleted successfully") EXCEPT
            !.ok = TRUE,
            !.questions = {q \in questions : q.student_id # user_id},
            !.answers = {a \in answers : a.staff_id # user_id},
            !.notifications = {n \in notifications : n.user_id # user_id},
            !.users = {u \in users : u.id # user_id}]

\* DELETE /admin/delete-question/<question_id>: db.session.delete(question)
\* cascades to the question's answers (cascade='all, delete-orphan')
admin_delete_question(current_user, question_id) ==
    IF current_user.user_type # "staff"
    THEN Refused(403, "Access denied")
    ELSE IF Get(questions, question_id) = {}
    THEN Refused(404, "Not Found")
    ELSE [Refused(200, "Question deleted successfully") EXCEPT
            !.ok = TRUE,
            !.questions = {q \in questions : q.id # question_id},
            !.answers = {a \in answers : a.question_id # question_id}]

\* POST /verify-otp/registration, for the pending registration (email,
\* user_type) of the session.  is_valid is what verify_otp returned (the OTP
\* engine is SpecOtp's subject).  users.email is UNIQUE: the commit of a
\* second row with the same email raises IntegrityError (a 500 response).
verify_otp_page(email, user_type, is_valid) ==
    IF ~is_valid
    THEN Refused(200, "Invalid OTP")
    ELSE IF \E u \in users : u.email = email
    THEN Refused(500, "IntegrityError")
    ELSE [Refused(302, "Registration successful! Please login.") EXCEPT
            !.ok = TRUE,
            !.row = NextId(users),
            !.users = users \cup {[id |-> NextId(users), email |-> email,
                                   user_type |-> user_type,
                                   is_verified |-> TRUE,
                                   is_blocked |-> FALSE]}]

\* A view_question that shows every question to everyone.
MayView_Anyone(question, current_user) == TRUE

\* view_question: the permission check of a private question
MayView(question, current_user) ==
    \/ question.is_public
    \/ ~(\/ (current_user.user_type = "student"
                /\ question.student_id # current_user.id)
         \/ (current_user.user_type = "staff"
                /\ question.staff_id # current_user.id))

\* GET /question/<question_id>: a read, the tables stay as they are
view_question(current_user, question_id) ==
    LET found == Get(questions, question_id) IN
    IF found = {}
    THEN Refused(404, "Not Found")
    ELSE IF ~MayView(CHOOSE q \in found : TRUE, current_user)
    THEN Refused(302, "Access denied")
    ELSE Refused(200, "view_question.html")

\* Whether mail.send(msg) goes through or raises.
MailServer == {"up", "down"}

\* A send_email without its try / except: the exception of mail.send
\* reaches the caller.
send_email_Raises(mail) == IF mail = "up" THEN "True" ELSE "raised"

\* send_email(to, subject, body): True, or False when mail.send raised
send_email(mail) == IF mail = "up" THEN "True" ELSE "False"

\* ask_question / answer_question with their send_notification_email calls,
\* one after each create_notification: the value returned is ignored, and an
\* exception would reach the handler's except branch (rollback of what is
\* not committed yet, 500).
Emailed(o, mail) ==
    IF ~o.ok \/ o.notifications = notifications
    THEN o
    ELSE IF send_email(mail) = "raised"
    THEN [o EXCEPT !.status = 500, !.msg = "Server error occurred",
                   !.mail = mail]
    ELSE [o EXCEPT !.mail = mail]

\* The tables of o stay within the bounds of the model.
WithinBounds(o) ==
    /\ \A r \in o.users : r.id <= MaxUsers
    /\ \A r \in o.blocks : r.id <= MaxBlocks
    /\ \A r \in o.questions : r.id <= MaxQuestions
    /\ \A r \in o.answers : r.id <= MaxAnswers
    /\ \A r \in o.notifications : r.id <= MaxNotifications

\* The request `op` of user `actor` about `target` is served: the store
\* takes the tables of its outcome o, and a request that committed becomes
\* the last one.
Serve(op, actor, target, o) ==
    /\ WithinBounds(o)
    /\ users' = o.users
    /\ blocks' = o.blocks
    /\ questions' = o.questions
    /\ answers' = o.answers
    /\ notifications' = o.notifications
    /\ last' = IF o.ok
               THEN [op |-> op, actor |-> actor, target |-> target,
                     status |-> o.status, row |-> o.row, mail |-> o.mail]
               ELSE last
    /\ UNCHANGED <<otps, now, resp, workerVars>>

\* In the actions below the outcome of the handler is computed once, as
\* the only element of a set.

VerifyOtpPage ==
    \E e \in {EmailFor(NextId(users))} \cup {u.email : u \in users},
       t \in UserTypes, v \in BOOLEAN :
        \E o \in {verify_otp_page(e, t, v)} :
            Serve("verify_otp_page", 0, 0, o)

BlockStudentRoute ==
    \E u \in users, s \in 0..MaxUsers :
        \E o \in {block_student_route(u, s)} :
            Serve("block_student", u.id, s, o)

UnblockStudentRoute ==
    \E u \in users, s \in 0..MaxUsers :
        \E o \in {unblock_student_route(u, s)} :
            Serve("unblock_student", u.id, s, o)

\* The states of the mail server that a request with outcome o can meet:
\* a request that sends no email is served the same way in both.
MailFor(o) == IF o.ok THEN MailServer ELSE {"up"}

AskQuestion ==
    \E u \in users, c \in RawContents, p \in BOOLEAN, s \in 0..MaxUsers :
        \E o \in {ask_question(u, c, p, s)} :
            \E m \in MailFor(o) :
                \E e \in {Emailed(o, m)} : Serve("ask_question", u.id, s, e)

AnswerQuestion ==
    \E u \in users, q \in 1..MaxQuestions, c \in RawContents :
        \E o \in {answer_question(u, q, c)} :
            \E m \in MailFor(o) :
                \E e \in {Emailed(o, m)} :
                    Serve("answer_question", u.id, q, e)

AdminDeleteUser ==
    \E u \in users, d \in UserIds :
        \E o \in {admin_delete_user(u, d)} :
            Serve("admin_delete_user", u.id, d, o)

AdminDeleteQuestion ==
    \E u \in users, q \in 1..MaxQuestions :
        \E o \in {admin_delete_question(u, q)} :
            Serve("admin_delete_question", u.id, q, o)

ViewQuestion ==
    \E u \in users, q \in 1..MaxQuestions :
        \E o \in {view_question(u, q)} :
            Serve("view_question", u.id, q, o)

Init ==
    /\ InitStore
    /\ backend = "sqlite"
    /\ otpSeq = 0
    /\ dbLock = 0
    /\ pc = [w \in Workers |-> "idle"]
    /\ loc = [w \in Workers |-> NoLoc]

Next ==
    \/ VerifyOtpPage
    \/ BlockStudentRoute
    \/ UnblockStudentRoute
    \/ AskQuestion
    \/ AnswerQuestion
    \/ AdminDeleteUser
    \/ AdminDeleteQuestion
    \/ ViewQuestion

Spec == Init /\ [][Next]_vars

---------------------------------------------------------------------------
\* Reading notifications (SpecRead): the requests of Spec among the first
\* MaxConcUsers accounts, and POST /notifications/<id>/read.

\* A mark_notification_read that lets anyone mark any notification.
IsRecipient_Anyone(notification, current_user) == TRUE

\* mark_notification_read: not (notification.user_id != current_user.id)
IsRecipient(notification, current_user) ==
    notification.user_id = current_user.id

\* notification.is_read = True
MarkRead(table, notification) ==
    {IF n.id = notification.id THEN [n EXCEPT !.is_read = TRUE] ELSE n :
        n \in table}

\* POST /notifications/<notification_id>/read
mark_notification_read(current_user, notification_id) ==
    LET found == Get(notifications, notification_id) IN
    IF found = {} \/ \E n \in found : ~IsRecipient(n, current_user)
    THEN Refused(404, "Notification not found")
    ELSE [Refused(200, "") EXCEPT
            !.ok = TRUE,
            !.row = notification_id,
            !.notifications =
                MarkRead(notifications, CHOOSE n \in found : TRUE)]

MarkNotificationRead ==
    \E u \in users, n \in 1..MaxNotifications :
        \E o \in {mark_notification_read(u, n)} :
            Serve("mark_notification_read", u.id, n, o)

\* A registration while fewer than MaxConcUsers accounts exist.
RegisterFew == NextId(users) <= MaxConcUsers /\ VerifyOtpPage

NextRead ==
    \/ RegisterFew
    \/ BlockStudentRoute
    \/ UnblockStudentRoute
    \/ AskQuestion
    \/ AnswerQuestion
    \/ AdminDeleteUser
    \/ AdminDeleteQuestion
    \/ ViewQuestion
    \/ MarkNotificationRead

SpecRead == Init /\ [][NextRead]_vars

---------------------------------------------------------------------------
\* Registration and password reset (auth.py), SpecAuth and SpecReset.  Each worker is a
\* browser that is not logged in, and loc[w] is its Flask session: the keys
\* pending_registration, pending_reset and reset_verified.  The field
\* `verified` is a history variable: the email for which this session
\* verified a password_reset OTP since its last forgot_password request
\* that issued one.  The OTP engine is that of SpecOtp, on SQLite.
\* verify_otp_page commits twice when it registers (inside verify_otp, then
\* the new User), and another request can be served in between.

NoPending == [email |-> "", password |-> <<>>, user_type |-> ""]

NoSession ==
    [pending_registration |-> NoPending, pending_reset |-> "",
     reset_verified |-> FALSE, verified |-> ""]

NoAuthRequest ==
    [op |-> "none", actor |-> 0, target |-> 0, status |-> 0, verified |-> ""]

\* What request.form.get('password') holds: two passwords that
\* validate_password accepts and one that it refuses.
FormPasswords ==
    {<<"A", "b", "c", "d", "1", "2", "3", "!">>,
     <<"P", "a", "s", "s", "w", "o", "r", "d", "1", "?">>,
     <<"a", "b", "c", "1", "2", "3", "4", "5">>}

\* register: User.query.filter_by(email=email).first(), and the same query
\* of forgot_password and reset_password
UserByEmail(email) == {u \in users : u.email = email}

\* A table users without the UNIQUE constraint on email.
UniqueEmailViolated_Unchecked(table, email) == FALSE

\* users.email is UNIQUE: the INSERT of a second row with the email raises
\* IntegrityError.
UniqueEmailViolated(table, email) == \E u \in table : u.email = email

\* create_otp(email, purpose) in the current state, within the bound of
\* the purpose
IssueOtp(email, purpose) ==
    LET id == NextId(InvalidateUnused(otps, email, purpose)) IN
    /\ id <= (IF purpose = "registration" THEN MaxRegOtps ELSE MaxAuthOtps)
    /\ \E o \in create_otp(otps, id, now, email, purpose) : otps' = o.table

\* POST /register with a valid email address and confirm_password equal to
\* password; mail is whether send_otp_email gets the message out.
AuthRegister(w, email, password, user_type, mail) ==
    /\ pc[w] = "idle"
    /\ validate_password(password).ok
    /\ user_type \in UserTypes
    /\ UserByEmail(email) = {}
    /\ IssueOtp(email, "registration")
    /\ loc' = IF send_email(mail) = "True"
              THEN [loc EXCEPT ![w].pending_registration =
                        [email |-> email, password |-> password,
                         user_type |-> user_type]]
              ELSE loc
    /\ UNCHANGED <<storeVars, now, resp, backend, otpSeq, dbLock, pc>>

\* POST /verify-otp/registration, up to the result of verify_otp
AuthVerifyRegistration(w, otp_code) ==
    LET reg_data == loc[w].pending_registration IN
    /\ pc[w] = "idle"
    /\ reg_data # NoPending
    /\ \E o \in verify_otp(otps, now, reg_data.email, otp_code,
                           "registration") :
        /\ otps' = o.table
        /\ pc' = IF o.ok THEN [pc EXCEPT ![w] = "create_user"] ELSE pc
    /\ UNCHANGED <<storeVars, now, resp, backend, otpSeq, dbLock, loc>>

\* verify_otp_page: new_user = User(...); db.session.add(new_user);
\* db.session.commit(); session.pop('pending_registration')
AuthCreateUser(w) ==
    LET reg_data == loc[w].pending_registration
        id == NextId(users)
    IN
    /\ pc[w] = "create_user"
    /\ id <= MaxConcUsers
    /\ IF UniqueEmailViolated(users, reg_data.email)
       THEN /\ last' = [NoAuthRequest EXCEPT !.op = "verify_otp_page",
                                            !.actor = w, !.status = 500]
            /\ UNCHANGED <<users, loc>>
       ELSE /\ users' = users \cup
                    {[id |-> id, email |-> reg_data.email,
                      user_type |-> reg_data.user_type,
                      is_verified |-> TRUE, is_blocked |-> FALSE,
                      password |-> reg_data.password]}
            /\ loc' = [loc EXCEPT ![w].pending_registration = NoPending]
            /\ last' = [NoAuthRequest EXCEPT !.op = "verify_otp_page",
                                            !.actor = w, !.target = id,
                                            !.status = 302]
    /\ pc' = [pc EXCEPT ![w] = "idle"]
    /\ UNCHANGED <<questions, answers, blocks, notifications, otps, now,
                   resp, backend, otpSeq, dbLock>>

\* POST /forgot-password for the email of an account (for another email
\* nothing is done)
AuthForgotPassword(w, email, mail) ==
    /\ pc[w] = "idle"
    /\ UserByEmail(email) # {}
    /\ IssueOtp(email, "password_reset")
    /\ loc' = IF send_email(mail) = "True"
              THEN [loc EXCEPT ![w].pending_reset = email,
                               ![w].verified = ""]
              ELSE loc
    /\ UNCHANGED <<storeVars, now, resp, backend, otpSeq, dbLock, pc>>

\* POST /verify-otp/password_reset
AuthVerifyReset(w, otp_code) ==
    LET email == loc[w].pending_reset IN
    /\ pc[w] = "idle"
    /\ email # ""
    /\ \E o \in verify_otp(otps, now, email, otp_code, "password_reset") :
        /\ otps' = o.table
        /\ loc' = IF o.ok
                  THEN [loc EXCEPT ![w].reset_verified = TRUE,
                                   ![w].verified = email]
                  ELSE loc
    /\ UNCHANGED <<storeVars, now, resp, backend, otpSeq, dbLock, pc>>

\* POST /reset-password with confirm_password equal to password
AuthResetPassword(w, password) ==
    LET email == loc[w].pending_reset IN
    /\ pc[w] = "idle"
    /\ loc[w].reset_verified
    /\ email # ""
    /\ validate_password(password).ok
    /\ \E user \in UserByEmail(email) :
        /\ users' = (users \ {user}) \cup
                        {[user EXCEPT !.password = password]}
        /\ last' = [NoAuthRequest EXCEPT !.op = "reset_password",
                                        !.actor = w, !.target = user.id,
                                        !.status = 302,
                                        !.verified = loc[w].verified]
    /\ loc' = [loc EXCEPT ![w].reset_verified = FALSE,
                          ![w].pending_reset = "",
                          ![w].verified = ""]
    /\ UNCHANGED <<questions, answers, blocks, notifications, otps, now,
                   resp, backend, otpSeq, dbLock, pc>>

\* GET /resend-otp/<purpose>
AuthResendOtp(w, purpose) ==
    LET email == IF purpose = "registration"
                 THEN loc[w].pending_registration.email
                 ELSE loc[w].pending_reset
    IN
    /\ pc[w] = "idle"
    /\ email # ""
    /\ IssueOtp(email, purpose)
    /\ UNCHANGED <<storeVars, now, resp, backend, otpSeq, dbLock, pc, loc>>

\* SpecAuth: registration, from the empty store.
InitAuth ==
    /\ users = {} /\ otps = {} /\ questions = {} /\ answers = {}
    /\ blocks = {} /\ notifications = {}
    /\ now = 0
    /\ resp = NoResp
    /\ last = NoAuthRequest
    /\ backend = "sqlite" /\ otpSeq = 0 /\ dbLock = 0
    /\ pc = [w \in Workers |-> "idle"]
    /\ loc = [w \in Workers |-> NoSession]

NextAuth ==
    \/ \E w \in Workers, e \in Emails, p \in FormPasswords, t \in UserTypes,
          m \in MailServer : AuthRegister(w, e, p, t, m)
    \/ \E w \in Workers, c \in generate_otp : AuthVerifyRegistration(w, c)
    \/ \E w \in Workers : AuthCreateUser(w)
    \/ \E w \in Workers : AuthResendOtp(w, "registration")

SpecAuth == InitAuth /\ [][NextAuth]_vars

\* SpecReset: password reset, once the two addresses of Emails have
\* registered (the store holds their accounts and the registration OTPs
\* they used).
RegisteredUsers ==
    {[id |-> 1, email |-> "a@x", user_type |-> "student",
      is_verified |-> TRUE, is_blocked |-> FALSE,
      password |-> <<"A", "b", "c", "d", "1", "2", "3", "!">>],
     [id |-> 2, email |-> "b@x", user_type |-> "staff",
      is_verified |-> TRUE, is_blocked |-> FALSE,
      password |-> <<"A", "b", "c", "d", "1", "2", "3", "!">>]}

UsedRegistrationOtps ==
    {[NewOtp(1, "a@x", "registration", "000000", 0) EXCEPT !.is_used = TRUE],
     [NewOtp(2, "b@x", "registration", "123456", 0) EXCEPT !.is_used = TRUE]}

InitReset ==
    /\ users = RegisteredUsers
    /\ otps = UsedRegistrationOtps
    /\ questions = {} /\ answers = {}
    /\ blocks = {} /\ notifications = {}
    /\ now = 0
    /\ resp = NoResp
    /\ last = NoAuthRequest
    /\ backend = "sqlite" /\ otpSeq = 0 /\ dbLock = 0
    /\ pc = [w \in Workers |-> "idle"]
    /\ loc = [w \in Workers |-> NoSession]

NextReset ==
    \/ \E w \in Workers, e \in Emails \cup {"c@x"}, m \in MailServer :
        AuthForgotPassword(w, e, m)
    \/ \E w \in Workers, c \in generate_otp : AuthVerifyReset(w, c)
    \/ \E w \in Workers, p \in FormPasswords : AuthResetPassword(w, p)
    \/ \E w \in Workers : AuthResendOtp(w, "password_reset")

SpecReset == InitReset /\ [][NextReset]_vars

---------------------------------------------------------------------------
\* block_student, unblock_student, ask_question and answer_question, statement by
\* statement (SpecConc).  Each worker serves one request at a time in its own
\* session, as in SpecOtpConc: a query reads the committed rows (and, on a
\* database server, the rows committed since the transaction began), the
\* session's changes reach the tables at db.session.commit(), and every
\* create_notification is a commit of its own.  A request can die between
\* two commits (the worker is killed, or the later commit raises).
\* Registration is served in one step, and the requests name users that
\* exist.

\* The locals of a worker that runs nothing (SpecConc).
\* `blocked` is a history variable of ask_question: whether a BlockedUser
\* row of the author was committed when the Question was committed.
NoCall ==
    [op |-> "none", actor |-> 0, target |-> 0, deleted |-> {},
     loaded |-> {}, text |-> "", row |-> 0, blocked |-> FALSE]

\* The request of worker w is over: the worker is free again.
Done(w) ==
    /\ pc' = [pc EXCEPT ![w] = "idle"]
    /\ loc' = [loc EXCEPT ![w] = NoCall]

\* The session of worker w commits: SQLite's write lock is released.
Unlock(w) == dbLock' = IF dbLock = w THEN 0 ELSE dbLock

\* The first writing statement of worker w's transaction.
Lock(w) ==
    /\ CanWrite(w)
    /\ dbLock' = IF backend = "sqlite" THEN w ELSE dbLock

\* POST /block-student by a staff user, up to
\* block_student: if is_student_blocked(student_id): return False, ...
BlockCheck(w, current_user, student_id) ==
    /\ pc[w] = "idle"
    /\ current_user.user_type = "staff"
    /\ IF is_student_blocked(student_id)
       THEN UNCHANGED <<pc, loc>>
       ELSE /\ pc' = [pc EXCEPT ![w] = "block_get"]
            /\ loc' = [loc EXCEPT ![w] =
                        [NoCall EXCEPT !.op = "block_student",
                                       !.actor = current_user.id,
                                       !.target = student_id]]
    /\ UNCHANGED <<storeVars, otps, now, resp, backend, otpSeq, dbLock>>

\* block_student: db.session.add(block); student = User.query.get(student_id)
\* (the query flushes the INSERT first)
BlockGet(w) ==
    /\ pc[w] = "block_get"
    /\ Lock(w)
    /\ loc' = [loc EXCEPT ![w].loaded = Get(users, loc[w].target)]
    /\ pc' = [pc EXCEPT ![w] = "block_commit"]
    /\ UNCHANGED <<storeVars, otps, now, resp, backend, otpSeq>>

\* The UPDATE that db.session.commit() sends for student.is_blocked = value:
\* none when the loaded row already held the value.
FlagWritten(table, loaded, value) ==
    IF \E u \in loaded : u.is_blocked # value
    THEN {IF \E x \in loaded : x.id = u.id
          THEN [u EXCEPT !.is_blocked = value] ELSE u : u \in table}
    ELSE table

\* block_student: if student: student.is_blocked = True; db.session.commit()
BlockCommit(w) ==
    /\ pc[w] = "block_commit"
    /\ NextId(blocks) <= MaxConcBlocks
    /\ blocks' = blocks \cup {[id |-> NextId(blocks),
                               student_id |-> loc[w].target,
                               blocked_by_staff_id |-> loc[w].actor]}
    /\ users' = FlagWritten(users, loc[w].loaded, TRUE)
    /\ Unlock(w)
    /\ pc' = [pc EXCEPT ![w] = "block_notify"]
    /\ UNCHANGED <<questions, answers, notifications, last, otps, now, resp,
                   backend, otpSeq, loc>>

\* block_student: create_notification(student_id, ..., "block"); return
BlockNotify(w) ==
    /\ pc[w] = "block_notify"
    /\ CanWrite(w)
    /\ NextId(notifications) <= MaxNotifications
    /\ notifications' = create_notification(notifications, loc[w].target,
                                            BLOCK_MESSAGE, "block", 0)
    /\ Done(w)
    /\ UNCHANGED <<users, questions, answers, blocks, last, otps, now, resp,
                   backend, otpSeq, dbLock>>

\* POST /unblock-student by a staff user, up to
\* unblock_student: BlockedUser.query.filter_by(student_id=...).delete()
UnblockDelete(w, current_user, student_id) ==
    /\ pc[w] = "idle"
    /\ current_user.user_type = "staff"
    /\ Lock(w)
    /\ loc' = [loc EXCEPT ![w] =
                [NoCall EXCEPT !.op = "unblock_student",
                               !.actor = current_user.id,
                               !.target = student_id,
                               !.deleted = {b.id : b \in
                                    {x \in blocks :
                                        x.student_id = student_id}}]]
    /\ pc' = [pc EXCEPT ![w] = "unblock_get"]
    /\ UNCHANGED <<storeVars, otps, now, resp, backend, otpSeq>>

\* unblock_student: student = User.query.get(student_id)
UnblockGet(w) ==
    /\ pc[w] = "unblock_get"
    /\ loc' = [loc EXCEPT ![w].loaded = Get(users, loc[w].target)]
    /\ pc' = [pc EXCEPT ![w] = "unblock_commit"]
    /\ UNCHANGED <<storeVars, otps, now, resp, backend, otpSeq, dbLock>>

\* unblock_student: if student: student.is_blocked = False;
\* db.session.commit()
UnblockCommit(w) ==
    /\ pc[w] = "unblock_commit"
    /\ blocks' = {b \in blocks : b.id \notin loc[w].deleted}
    /\ users' = FlagWritten(users, loc[w].loaded, FALSE)
    /\ Unlock(w)
    /\ pc' = [pc EXCEPT ![w] = "unblock_notify"]
    /\ UNCHANGED <<questions, answers, notifications, last, otps, now, resp,
                   backend, otpSeq, loc>>

\* unblock_student: create_notification(student_id, ..., "unblock"); return
UnblockNotify(w) ==
    /\ pc[w] = "unblock_notify"
    /\ CanWrite(w)
    /\ NextId(notifications) <= MaxNotifications
    /\ notifications' = create_notification(notifications, loc[w].target,
                                            UNBLOCK_MESSAGE, "unblock", 0)
    /\ Done(w)
    /\ UNCHANGED <<users, questions, answers, blocks, last, otps, now, resp,
                   backend, otpSeq, dbLock>>

\* POST /answer-question: answer_question up to the permission check
AnswerCheck(w, current_user, question_id, raw) ==
    /\ pc[w] = "idle"
    /\ IF answer_question(current_user, question_id, raw).ok
       THEN /\ pc' = [pc EXCEPT ![w] = "answer_commit"]
            /\ loc' = [loc EXCEPT ![w] =
                        [NoCall EXCEPT !.op = "answer_question",
                                       !.actor = current_user.id,
                                       !.target = question_id,
                                       !.text = strip(raw)]]
       ELSE UNCHANGED <<pc, loc>>
    /\ UNCHANGED <<storeVars, otps, now, resp, backend, otpSeq, dbLock>>

\* answer_question: db.session.add(answer); question.is_answered = True;
\* db.session.commit()
AnswerCommit(w) ==
    /\ pc[w] = "answer_commit"
    /\ CanWrite(w)
    /\ NextId(answers) <= MaxAnswers
    /\ answers' = answers \cup {[id |-> NextId(answers),
                                 content |-> loc[w].text,
                                 question_id |-> loc[w].target,
                                 staff_id |-> loc[w].actor]}
    /\ questions' = UNION {Answered(questions, q) :
                            q \in Get(questions, loc[w].target)}
    /\ loc' = [loc EXCEPT ![w].row = NextId(answers)]
    /\ pc' = [pc EXCEPT ![w] = "answer_notify"]
    /\ UNCHANGED <<users, blocks, notifications, last, otps, now, resp,
                   backend, otpSeq, dbLock>>

\* answer_question: student = User.query.get(question.student_id);
\* if student: create_notification(student.id, ..., 'answer', answer.id)
AnswerNotify(w) ==
    LET student == UNION {Get(users, q.student_id) :
                            q \in Get(questions, loc[w].target)} IN
    /\ pc[w] = "answer_notify"
    /\ CanWrite(w)
    /\ notifications' = NotifyEach(notifications, {u.id : u \in student},
                                   "Your question has been answered",
                                   "answer", loc[w].row)
    /\ \A n \in notifications' : n.id <= MaxNotifications
    /\ Done(w)
    /\ UNCHANGED <<users, questions, answers, blocks, last, otps, now, resp,
                   backend, otpSeq, dbLock>>

\* The request of worker w dies after its first commit and before the
\* notification is stored.
Abort(w) ==
    /\ pc[w] \in {"block_notify", "unblock_notify", "answer_notify",
                 "ask_notify"}
    /\ Done(w)
    /\ UNCHANGED <<storeVars, otps, now, resp, backend, otpSeq, dbLock>>

\* A registration, served in one step while no transaction holds the write
\* lock.
Register == dbLock = 0 /\ NextId(users) <= MaxConcUsers /\ VerifyOtpPage

\* POST /ask-question by a student: @login_required loads current_user
\* (load_user: User.query.get), and the role check passes
AskLoad(w, current_user) ==
    /\ pc[w] = "idle"
    /\ current_user.user_type = "student"
    /\ pc' = [pc EXCEPT ![w] = "ask_check"]
    /\ loc' = [loc EXCEPT ![w] =
                [NoCall EXCEPT !.op = "ask_question",
                               !.actor = current_user.id,
                               !.loaded = {current_user},
                               !.text = strip("Need help")]]
    /\ UNCHANGED <<storeVars, otps, now, resp, backend, otpSeq, dbLock>>

\* ask_question: if current_user.is_blocked or
\* is_student_blocked(current_user.id): return ..., 403
AskCheck(w) ==
    /\ pc[w] = "ask_check"
    /\ IF \E current_user \in loc[w].loaded : AskerIsBlocked(current_user)
       THEN Done(w)
       ELSE /\ pc' = [pc EXCEPT ![w] = "ask_commit"]
            /\ loc' = loc
    /\ UNCHANGED <<storeVars, otps, now, resp, backend, otpSeq, dbLock>>

\* ask_question: question = Question(...); db.session.add(question);
\* db.session.commit(), for a public question
AskCommit(w) ==
    LET id == NextId(questions) IN
    /\ pc[w] = "ask_commit"
    /\ CanWrite(w)
    /\ id <= MaxQuestions
    /\ questions' = questions \cup
            {[id |-> id, content |-> loc[w].text, is_public |-> TRUE,
              student_id |-> loc[w].actor, staff_id |-> 0,
              is_answered |-> FALSE]}
    /\ loc' = [loc EXCEPT ![w].row = id,
                          ![w].blocked = is_student_blocked(loc[w].actor)]
    /\ pc' = [pc EXCEPT ![w] = "ask_notify"]
    /\ UNCHANGED <<users, answers, blocks, notifications, last, otps, now,
                   resp, backend, otpSeq, dbLock>>

\* ask_question: for staff in staff_members: create_notification(...)
AskNotify(w) ==
    /\ pc[w] = "ask_notify"
    /\ CanWrite(w)
    /\ notifications' =
            NotifyEach(notifications,
                       {u.id : u \in {x \in users : x.user_type = "staff"}},
                       "New public question: \"" \o loc[w].text \o "...\"",
                       "question", loc[w].row)
    /\ \A n \in notifications' : n.id <= MaxNotifications
    /\ Done(w)
    /\ UNCHANGED <<users, questions, answers, blocks, last, otps, now, resp,
                   backend, otpSeq, dbLock>>

Students == {u \in users : u.user_type = "student"}

InitConc ==
    /\ InitStore
    /\ backend \in Backends
    /\ otpSeq = 0
    /\ dbLock = 0
    /\ pc = [w \in Workers |-> "idle"]
    /\ loc = [w \in Workers |-> NoCall]

NextConc ==
    \/ Register
    \/ \E w \in Workers, u \in users : AskLoad(w, u)
    \/ \E w \in Workers : AskCheck(w)
    \/ \E w \in Workers : AskCommit(w)
    \/ \E w \in Workers : AskNotify(w)
    \/ \E w \in Workers, u \in users, s \in Students : BlockCheck(w, u, s.id)
    \/ \E w \in Workers : BlockGet(w)
    \/ \E w \in Workers : BlockCommit(w)
    \/ \E w \in Workers : BlockNotify(w)
    \/ \E w \in Workers, u \in users, s \in Students :
        UnblockDelete(w, u, s.id)
    \/ \E w \in Workers : UnblockGet(w)
    \/ \E w \in Workers : UnblockCommit(w)
    \/ \E w \in Workers : UnblockNotify(w)
    \/ \E w \in Workers, u \in users, q \in questions :
        AnswerCheck(w, u, q.id, "Need help")
    \/ \E w \in Workers : AnswerCommit(w)
    \/ \E w \in Workers : AnswerNotify(w)
    \/ \E w \in Workers : Abort(w)

SpecConc == InitConc /\ [][NextConc]_vars

---------------------------------------------------------------------------
\* Properties of the OTP engine, one call at a time (SpecOtp)

\* C2: right after create_otp returned a code, verify_otp with that code, the
\* same email and the same purpose succeeds; right after a successful
\* verify_otp, a second verify_otp with the same arguments fails with
\* "Invalid OTP".
C2_IssueVerifyOnce ==
    LET again == verify_otp(otps, now, resp.email, resp.code, resp.purpose) IN
    /\ resp.op = "create_otp" => \A o \in again : o.ok
    /\ (resp.op = "verify_otp" /\ resp.ok)
       => \A o \in again : ~o.ok /\ o.msg = "Invalid OTP"

\* C2 witness: a verify_otp was refused for a code whose row, still within
\* its lifetime, has already been consumed.
C2_Witness ==
    /\ resp.op = "verify_otp" /\ ~resp.ok /\ resp.msg = "Invalid OTP"
    /\ \E r \in otps :
        /\ r.email = resp.email /\ r.purpose = resp.purpose
        /\ r.otp_code = resp.code
        /\ r.is_used /\ now <= r.expires_at

\* C4: verify_otp with the code of an unused row whose expires_at is in the
\* past fails with "OTP has expired" and leaves the row unused; and no row
\* is ever marked used at a time later than its expires_at.
C4_ExpiredStaysUnused ==
    [][\A r \in otps :
        /\ (/\ resp'.op = "verify_otp" /\ resp'.email = r.email
            /\ resp'.purpose = r.purpose /\ resp'.code = r.otp_code
            /\ ~r.is_used /\ now > r.expires_at)
           => (~resp'.ok /\ resp'.msg = "OTP has expired" /\ r \in otps')
        /\ (~r.is_used /\ \E x \in otps' : x.id = r.id /\ x.is_used)
           => now <= r.expires_at]_vars

\* C4 witness: the last call was a verify_otp refused as expired, and the
\* row it found is past its expiry and still unused.
C4_Witness ==
    /\ resp.op = "verify_otp" /\ resp.msg = "OTP has expired"
    /\ \E r \in otps :
        /\ r.id = resp.target /\ r.otp_code = resp.code
        /\ ~r.is_used /\ now > r.expires_at

\* C5 as stated: after create_otp issues again for an (email, purpose),
\* verify_otp with the code of any earlier row of that pair fails, whatever
\* code the new issuance drew.
C5_OldCodeAlwaysFails ==
    [][\A r \in otps :
        (resp'.op = "create_otp" /\ resp'.email = r.email
            /\ resp'.purpose = r.purpose)
        => \A o \in verify_otp(otps', now', r.email, r.otp_code, r.purpose) :
            ~o.ok]_vars

\* C5 amended: after create_otp issues again for an (email, purpose),
\* verify_otp with the code of an earlier row of that pair fails whenever the
\* new issuance drew a different code, and the new row is the only unused
\* row of the pair.
C5_OldCodeFailsUnlessRedrawn ==
    [][\A r \in otps :
        (resp'.op = "create_otp" /\ resp'.email = r.email
            /\ resp'.purpose = r.purpose)
        => /\ resp'.code # r.otp_code
              => \A o \in verify_otp(otps', now', r.email, r.otp_code,
                                     r.purpose) : ~o.ok
           /\ \A x \in otps' :
                (x.email = r.email /\ x.purpose = r.purpose /\ ~x.is_used)
                => (x.id = resp'.target /\ x.otp_code = resp'.code)]_vars

\* C5 witness: the last call issued a code and deleted an unused row of
\* the same pair that held another code, and that earlier code no longer
\* verifies.
C5_Witness ==
    /\ resp.op = "create_otp"
    /\ \E c \in resp.deleted :
        /\ c # resp.code
        /\ \A o \in verify_otp(otps, now, resp.email, c, resp.purpose) :
            ~o.ok

---------------------------------------------------------------------------
\* Properties of the OTP engine under concurrent workers (SpecOtpConc)

\* C3: when several workers run verify_otp with the same (email, code,
\* purpose) against one unused, unexpired row, at most one of them returns
\* success: no two workers hold a success for the same row.
C3_AtMostOneSuccess ==
    \A w1, w2 \in Workers :
        (/\ w1 # w2
         /\ pc[w1] = "returned" /\ pc[w2] = "returned"
         /\ loc[w1].op = "verify_otp" /\ loc[w2].op = "verify_otp"
         /\ loc[w1].ok /\ loc[w2].ok)
        => loc[w1].otp_record # loc[w2].otp_record

\* C6: in every reachable state there is at most one row with is_used false
\* for any (email, purpose), also when create_otp calls run concurrently.
C6_OneUnusedPerPair ==
    \A e \in Emails, p \in Purposes :
        Cardinality({r \in otps : r.email = e /\ r.purpose = p
                                  /\ ~r.is_used}) <= 1

---------------------------------------------------------------------------
\* Properties of moderation, questions and answers (Spec)

\* C1: in every reachable state a student's is_blocked flag is true if and
\* only if at least one BlockedUser row references the student's id.
C1_FlagIffRecord ==
    \A u \in users :
        u.user_type = "student"
        => (u.is_blocked <=> \E b \in blocks : b.student_id = u.id)

\* C7: a student who is blocked (is_blocked is true, or a BlockedUser row
\* for the student exists) has every ask_question refused with 403, whether
\* the content is valid, empty or profane, and no Question is persisted.
C7_BlockedCannotAsk ==
    \A u \in users :
        (u.user_type = "student"
            /\ (u.is_blocked \/ \E b \in blocks : b.student_id = u.id))
        => \A c \in RawContents, p \in BOOLEAN, s \in 0..MaxUsers :
            LET o == ask_question(u, c, p, s) IN
            /\ o.status = 403
            /\ ~o.ok
            /\ o.questions = questions

\* C7 witness: a student who asked a question while unblocked has just been
\* blocked, and the same question is now refused with 403.
C7_Witness ==
    \E u \in users :
        /\ u.user_type = "student" /\ u.is_blocked
        /\ last.op = "block_student" /\ last.target = u.id
        /\ \E q \in questions :
            q.student_id = u.id /\ q.content = "Need help"
        /\ ask_question(u, "Need help", TRUE, 0).status = 403

\* C8: once block_student has blocked a student, is_student_blocked is true
\* for the student; once unblock_student has run, it is false; and as long
\* as no unblock_student has run for a blocked student, the student stays
\* blocked and block_student for that student, by any staff, fails with
\* "Student is already blocked" and adds no BlockedUser row.
C8_BlockUnblock ==
    /\ [](/\ last.op = "block_student" => is_student_blocked(last.target)
          /\ last.op = "unblock_student" => ~is_student_blocked(last.target)
          /\ \A s \in 1..MaxUsers, staff \in users :
                is_student_blocked(s)
                => LET o == block_student(s, staff.id) IN
                   /\ ~o.ok
                   /\ o.msg = "Student is already blocked"
                   /\ o.blocks = blocks)
    /\ [][\A s \in 1..MaxUsers :
            (is_student_blocked(s)
                /\ ~(last'.op = "unblock_student" /\ last'.target = s))
            => is_student_blocked(s)']_vars

\* C8 witness: a student was blocked and has just been unblocked (both
\* notices are in the student's notifications), and no BlockedUser row is
\* left for the student.
C8_Witness ==
    \E u \in users :
        /\ u.user_type = "student"
        /\ last.op = "unblock_student" /\ last.target = u.id
        /\ \E n1, n2 \in notifications :
            /\ n1.user_id = u.id /\ n1.notification_type = "block"
            /\ n2.user_id = u.id /\ n2.notification_type = "unblock"
            /\ n1.id < n2.id
        /\ ~is_student_blocked(u.id)

\* C9 as stated: answer_question on a private question by a staff user who
\* is not the question's staff_id fails with 403, whatever the content, and
\* persists no Answer; by the staff user who is the question's staff_id,
\* with valid content, it succeeds, persists the Answer and leaves
\* is_answered true.
C9_PrivateAnswer ==
    \A q \in questions, u \in users :
        (~q.is_public /\ u.user_type = "staff")
        => /\ u.id # q.staff_id
              => \A c \in RawContents :
                    LET o == answer_question(u, q.id, c) IN
                    o.status = 403 /\ o.answers = answers
           /\ u.id = q.staff_id
              => LET o == answer_question(u, q.id, "Need help") IN
                 /\ o.ok
                 /\ \E a \in o.answers \ answers :
                        a.question_id = q.id /\ a.staff_id = u.id
                 /\ \A x \in o.questions : x.id = q.id => x.is_answered

\* C9 amended: answer_question on a private question by a staff user who is
\* not the question's staff_id persists no Answer, and fails with 403 when
\* the content is valid and with 400 when the content is empty or profane
\* (the content is checked first); by the staff user who is the question's
\* staff_id, with valid content, it succeeds, persists the Answer and
\* leaves is_answered true.
C9_PrivateAnswerValidContent ==
    \A q \in questions, u \in users :
        (~q.is_public /\ u.user_type = "staff")
        => /\ u.id # q.staff_id
              => \A c \in RawContents :
                    LET o == answer_question(u, q.id, c)
                        valid == strip(c) # "" /\ ~check_profanity(strip(c))
                    IN
                    /\ ~o.ok
                    /\ o.answers = answers
                    /\ o.questions = questions
                    /\ o.status = IF valid THEN 403 ELSE 400
           /\ u.id = q.staff_id
              => LET o == answer_question(u, q.id, "Need help") IN
                 /\ o.ok
                 /\ \E a \in o.answers \ answers :
                        a.question_id = q.id /\ a.staff_id = u.id
                 /\ \A x \in o.questions : x.id = q.id => x.is_answered

\* C9 witness: the staff member a private question was sent to has just
\* answered it (the Answer is stored and is_answered is true), and another
\* staff member is refused with 403 on the same question.
C9_Witness ==
    \E q \in questions, target, other \in users :
        /\ ~q.is_public /\ q.staff_id = target.id /\ q.is_answered
        /\ target.user_type = "staff"
        /\ other.user_type = "staff" /\ other.id # target.id
        /\ last.op = "answer_question" /\ last.actor = target.id
        /\ last.target = q.id
        /\ \E a \in answers :
            a.id = last.row /\ a.question_id = q.id /\ a.staff_id = target.id
        /\ answer_question(other, q.id, "Need help").status = 403

\* C10: in every reachable state every Question with is_answered true has
\* at least one Answer whose question_id is that question.
C10_AnsweredHasAnswer ==
    \A q \in questions :
        q.is_answered => \E a \in answers : a.question_id = q.id

\* C11: in every reachable state every private Question has a staff_id that
\* is the id of a staff user, and every public Question has staff_id unset
\* (0 stands for NULL).
C11_PrivateHasStaffTarget ==
    \A q \in questions :
        IF q.is_public
        THEN q.staff_id = 0
        ELSE \E u \in users : u.id = q.staff_id /\ u.user_type = "staff"

\* C12: ask_question with private visibility and no staff_id, or with a
\* staff_id that is not the id of an existing staff account, fails and
\* persists no Question.
C12_BadTargetRefused ==
    \A u \in users, c \in RawContents, s \in 0..MaxUsers :
        (~\E t \in users : t.id = s /\ t.user_type = "staff")
        => LET o == ask_question(u, c, FALSE, s) IN
           ~o.ok /\ o.questions = questions

\* The ids of the staff accounts.
StaffIds == {u.id : u \in {x \in users : x.user_type = "staff"}}

\* C13: a successful ask_question creates notifications of type question
\* only: for a public question exactly one for every staff account and none
\* for any student; for a private question exactly one for the target
\* staff and none for anyone else.
C13_QuestionFanOut ==
    \A u \in users, c \in RawContents, p \in BOOLEAN, s \in 0..MaxUsers :
        LET o == ask_question(u, c, p, s)
            new == o.notifications \ notifications
            For(id) == {n \in new : n.user_id = id}
        IN
        o.ok
        => /\ \A n \in new :
                n.notification_type = "question" /\ n.related_id = o.row
           /\ IF p
              THEN /\ \A t \in StaffIds : Cardinality(For(t)) = 1
                   /\ \A n \in new : n.user_id \in StaffIds
              ELSE \E t \in StaffIds :
                    /\ Cardinality(For(t)) = 1
                    /\ \A n \in new : n.user_id = t

\* C14: each successful answer_question leaves the question's is_answered
\* true and creates exactly one Notification, of type answer, addressed to
\* the student who authored the question.
C14_AnswerNotifiesAuthor ==
    \A u \in users, q \in questions, c \in RawContents :
        LET o == answer_question(u, q.id, c)
            new == o.notifications \ notifications
        IN
        o.ok
        => /\ \A x \in o.questions : x.id = q.id => x.is_answered
           /\ Cardinality(new) = 1
           /\ \A n \in new :
                /\ n.notification_type = "answer"
                /\ n.user_id = q.student_id
                /\ n.related_id = o.row
                /\ \E a \in users :
                    a.id = q.student_id /\ a.user_type = "student"

\* C14 witness: an answer has just been stored; its question is answered,
\* and the only Notification of type answer is the one for this answer,
\* addressed to the question's author.
C14_Witness ==
    /\ last.op = "answer_question"
    /\ \E q \in questions, a \in answers, n \in notifications :
        /\ q.id = last.target /\ q.is_answered
        /\ a.id = last.row /\ a.question_id = q.id
        /\ n.notification_type = "answer" /\ n.user_id = q.student_id
        /\ n.related_id = a.id
        /\ \A m \in notifications : m.notification_type = "answer" => m = n

\* C15: every Unblocked->Blocked transition made by block_student and every
\* Blocked->Unblocked transition made by unblock_student creates exactly one
\* Notification, addressed to the affected student, of type block or
\* unblock respectively, with the fixed message of that direction.
C15_TransitionNotifies ==
    \A staff \in users, s \in 1..MaxUsers :
        LET o == IF is_student_blocked(s)
                 THEN unblock_student(s)
                 ELSE block_student(s, staff.id)
            new == o.notifications \ notifications
        IN
        /\ o.ok
        /\ Cardinality(new) = 1
        /\ \A n \in new :
            /\ n.user_id = s
            /\ ~n.is_read
            /\ IF is_student_blocked(s)
               THEN /\ n.notification_type = "unblock"
                    /\ n.message = "Your account has been unblocked. You can now send messages again."
               ELSE /\ n.notification_type = "block"
                    /\ n.message = "Your account has been blocked due to policy violations. Please contact support."

\* C15 witness: a student has been blocked and then unblocked, and holds
\* exactly the two notices, the block notice first.
C15_Witness ==
    \E u \in users :
        /\ u.user_type = "student" /\ ~u.is_blocked
        /\ last.op = "unblock_student" /\ last.target = u.id
        /\ {<<n.id, n.notification_type, n.message>> :
                n \in {x \in notifications : x.user_id = u.id}}
           = {<<1, "block", BLOCK_MESSAGE>>, <<2, "unblock", UNBLOCK_MESSAGE>>}

\* C18: view_question shows a public question to every user, and a private
\* question only to the user who authored it and to the staff user whose id
\* is its staff_id; every other user is turned away.
C18_ViewPermission ==
    \A q \in questions, u \in users :
        LET o == view_question(u, q.id)
            entitled == \/ q.is_public
                        \/ u.id = q.student_id
                        \/ (u.user_type = "staff" /\ u.id = q.staff_id)
        IN
        /\ o.status = IF entitled THEN 200 ELSE 302
        /\ ~entitled => o.msg = "Access denied"

\* C18 witness: a private question whose author and target staff are shown
\* it while a third user is turned away.
C18_Witness ==
    \E q \in questions, author, target, other \in users :
        /\ ~q.is_public
        /\ author.user_type = "student" /\ author.id = q.student_id
        /\ target.user_type = "staff" /\ target.id = q.staff_id
        /\ other.id \notin {author.id, target.id}
        /\ view_question(author, q.id).status = 200
        /\ view_question(target, q.id).status = 200
        /\ view_question(other, q.id).status = 302

\* C19: in every reachable state no Question and no Answer holds content
\* that is empty (or blank) or that check_profanity reports; and an
\* ask_question or answer_question whose text is empty, blank or profane
\* is refused with 400 at the latest and stores nothing, the text neither
\* whole nor in part.
C19_StoredContentIsClean ==
    /\ \A r \in questions \cup answers :
        r.content \notin {"", "  "} /\ ~check_profanity(r.content)
    /\ \A u \in users, c \in {"", "  ", "damn"} :
        /\ \A p \in BOOLEAN, s \in 0..MaxUsers :
            LET o == ask_question(u, c, p, s) IN
            /\ ~o.ok /\ o.status \in {400, 403}
            /\ o.questions = questions /\ o.answers = answers
            /\ o.notifications = notifications
        /\ \A q \in 1..MaxQuestions :
            LET o == answer_question(u, q, c) IN
            /\ ~o.ok /\ o.status \in {400, 403}
            /\ o.questions = questions /\ o.answers = answers
            /\ o.notifications = notifications

\* C19 witness: a question and an answer are stored, both with the text
\* that was sent, while the same student's empty, blank and profane
\* questions and the same staff user's empty, blank and profane answers
\* are refused with 400.
C19_Witness ==
    \E q \in questions, a \in answers, student, staff \in users :
        /\ q.content = "Need help" /\ a.content = "Need help"
        /\ a.question_id = q.id
        /\ student.id = q.student_id /\ staff.id = a.staff_id
        /\ \A c \in {"", "  ", "damn"} :
            /\ ask_question(student, c, TRUE, 0).status = 400
            /\ answer_question(staff, q.id, c).status = 400

\* C20: a failure of the email send during ask_question or answer_question
\* neither blocks nor reverses the transition: the response and the tables
\* are those of the request without the failure, and the request that was
\* served while the mail server was down reported success and left its
\* Question, or its Answer with is_answered set, and its Notification rows.
C20_MailFailureIsHarmless ==
    /\ \A u \in users, c \in RawContents :
        /\ \A p \in BOOLEAN, s \in 0..MaxUsers :
            LET plain == ask_question(u, c, p, s)
                o == Emailed(plain, "down")
            IN [o EXCEPT !.mail = "none"] = plain
        /\ \A q \in 1..MaxQuestions :
            LET plain == answer_question(u, q, c)
                o == Emailed(plain, "down")
            IN [o EXCEPT !.mail = "none"] = plain
    /\ last.mail = "down"
       => /\ last.status = 200
          /\ last.op = "ask_question"
             => /\ \E q \in questions : q.id = last.row
                /\ \E n \in notifications :
                    n.notification_type = "question"
                        /\ n.related_id = last.row
          /\ last.op = "answer_question"
             => /\ \E a \in answers :
                    a.id = last.row /\ a.question_id = last.target
                /\ \A q \in questions : q.id = last.target => q.is_answered
                /\ \E n \in notifications :
                    n.notification_type = "answer" /\ n.related_id = last.row

\* C20 witness: an answer has just been stored while the mail server was
\* down: the request returned 200, and the Answer, the is_answered flag and
\* the author's Notification are in the store.
C20_Witness ==
    /\ last.op = "answer_question" /\ last.mail = "down"
    /\ last.status = 200
    /\ \E q \in questions, a \in answers, n \in notifications :
        /\ q.id = last.target /\ q.is_answered
        /\ a.id = last.row /\ a.question_id = q.id
        /\ n.notification_type = "answer" /\ n.related_id = a.id
        /\ n.user_id = q.student_id

\* C27: a rejected ask_question or answer_question (wrong role, blocked
\* student, empty or prohibited content, missing question, staff who is
\* not the target of a private question) leaves the store as it is: no
\* Question, Answer or Notification is added and no is_answered changes;
\* and a request with none of these causes is accepted.
C27_RejectedLeavesStore ==
    \A u \in users, c \in RawContents :
        LET badContent == c \in {"", "  ", "damn"}
            Unchanged(o) ==
                /\ ~o.ok /\ o.status \in {400, 403, 404}
                /\ o.users = users /\ o.blocks = blocks
                /\ o.questions = questions /\ o.answers = answers
                /\ o.notifications = notifications
        IN
        /\ \A p \in BOOLEAN, s \in 0..MaxUsers :
            LET o == ask_question(u, c, p, s)
                rejected ==
                    \/ u.user_type # "student"
                    \/ u.is_blocked
                    \/ \E b \in blocks : b.student_id = u.id
                    \/ badContent
            IN IF rejected THEN Unchanged(o) ELSE o.ok
        /\ \A id \in 1..(MaxQuestions + 1) :
            LET o == answer_question(u, id, c)
                rejected ==
                    \/ u.user_type # "staff"
                    \/ badContent
                    \/ ~\E q \in questions : q.id = id
                    \/ \E q \in questions :
                        q.id = id /\ ~q.is_public /\ q.staff_id # u.id
            IN IF rejected THEN Unchanged(o) ELSE o.ok

\* C27 witness: with a blocked student, a private question and a staff
\* user it was not sent to in the store, the student's question, that
\* staff user's answer, an answer to a question that does not exist and an
\* empty answer are refused with 403, 403, 404 and 400.
C27_Witness ==
    \E student, other \in users, q \in questions :
        /\ student.user_type = "student" /\ is_student_blocked(student.id)
        /\ other.user_type = "staff"
        /\ ~q.is_public /\ q.staff_id # other.id
        /\ \E target \in users :
            target.id = q.staff_id /\ target.user_type = "staff"
        /\ ask_question(student, "Need help", TRUE, 0).status = 403
        /\ answer_question(other, q.id, "Need help").status = 403
        /\ answer_question(other, q.id + 1, "Need help").status = 404
        /\ answer_question(other, q.id, "").status = 400

\* C28: is_answered is monotonic: once true it is true in every later state
\* in which the question exists, and a further answer to an answered
\* question (a question accepts many) keeps it true.
C28_AnsweredIsMonotonic ==
    /\ [][\A q \in questions :
            q.is_answered
            => \A x \in questions' : x.id = q.id => x.is_answered]_vars
    /\ [](\A u \in users, q \in questions, c \in RawContents :
            q.is_answered
            => \A x \in answer_question(u, q.id, c).questions :
                x.id = q.id => x.is_answered)

\* C28 witness: a question whose author holds two Notifications of type
\* answer has just been answered again, and is_answered is true.
C28_Witness ==
    \E q \in questions :
        /\ q.is_answered
        /\ last.op = "answer_question" /\ last.target = q.id
        /\ Cardinality({n \in notifications :
                            /\ n.notification_type = "answer"
                            /\ n.user_id = q.student_id}) = 2

\* C29: only student accounts are ever blocked: no User of type staff has
\* is_blocked true, and the student_id of every BlockedUser row is the id
\* of an existing User of type student.
C29_OnlyStudentsBlocked ==
    /\ \A u \in users : u.user_type = "staff" => ~u.is_blocked
    /\ \A b \in blocks :
        \E u \in users : u.id = b.student_id /\ u.user_type = "student"

\* C30: in every reachable state the question_id of every Answer is the id
\* of an existing Question and the student_id of every Question is the id
\* of an existing User, also after admin_delete_user and
\* admin_delete_question.
C30_NoDanglingReferences ==
    /\ \A a \in answers : \E q \in questions : q.id = a.question_id
    /\ \A q \in questions : \E u \in users : u.id = q.student_id

---------------------------------------------------------------------------
\* Properties of the requests that commit more than once (SpecConc)

\* C16: block + notify and answer + flag + notify are atomic: in no
\* reachable state, a request dying between two steps included, is a
\* BlockedUser row committed without a block Notification for its student,
\* or an Answer committed (its question flagged answered) without the
\* answer Notification that names it.
C16_CommitWithNotification ==
    /\ \A b \in blocks :
        \E n \in notifications :
            n.notification_type = "block" /\ n.user_id = b.student_id
    /\ \A a \in answers :
        \E n \in notifications :
            n.notification_type = "answer" /\ n.related_id = a.id

\* C17: under every interleaving of concurrent block_student and
\* unblock_student calls, no committed state shows a student with a
\* BlockedUser row and is_blocked false, or with is_blocked true and no row.
C17_NoDisagreementObserved ==
    \A u \in Students :
        /\ (\E b \in blocks : b.student_id = u.id) => u.is_blocked
        /\ u.is_blocked => \E b \in blocks : b.student_id = u.id

---------------------------------------------------------------------------
\* Properties of reading notifications (SpecRead)

\* C21: a Notification's is_read flag is changed only by its recipient:
\* mark_notification_read by a user other than the notification's user_id
\* answers 404 and leaves the notification as it is, and no request other
\* than the recipient's mark_notification_read changes the is_read of a
\* notification.
C21_ReadOnlyByRecipient ==
    /\ [](\A u \in users, n \in notifications :
            n.user_id # u.id
            => LET o == mark_notification_read(u, n.id) IN
               /\ o.status = 404 /\ ~o.ok
               /\ o.notifications = notifications)
    /\ [][\A n \in notifications, m \in notifications' :
            (m.id = n.id /\ m.is_read # n.is_read)
            => /\ last'.op = "mark_notification_read"
               /\ last'.actor = n.user_id
               /\ last'.target = n.id
               /\ m = [n EXCEPT !.is_read = TRUE]]_vars

\* C21 witness: the recipient has just marked a notification read, while
\* another user is answered 404 for a notification of that recipient that
\* is still unread.
C21_Witness ==
    /\ last.op = "mark_notification_read"
    /\ \E n, k \in notifications, other \in users :
        /\ n.id = last.target /\ n.is_read /\ n.user_id = last.actor
        /\ k.user_id = last.actor /\ ~k.is_read
        /\ other.id # last.actor
        /\ mark_notification_read(other, k.id).status = 404

---------------------------------------------------------------------------
\* Properties of the credential policy (SpecPassword)

\* C22: validate_password fails with the message of the first unmet rule,
\* in the order: at least 8 characters, a digit, an uppercase letter, a
\* lowercase letter, a character of the symbol set; it passes exactly when
\* the five rules hold; "abc12345" fails and "Abcd123!" passes.
C22_FirstUnmetRule ==
    /\ resp.op = "validate_password"
       => LET pw == resp.password
              Has(S) == \E i \in 1..Len(pw) : pw[i] \in S
              rules == <<Len(pw) >= 8,
                         Has({"1", "2", "3", "4", "5"}),
                         Has({"A", "P"}),
                         Has({"a", "b", "c", "d", "s", "w", "o", "r"}),
                         Has({"!", "?"})>>
              messages ==
                  <<"Password must be at least 8 characters long",
                    "Password must contain at least one digit",
                    "Password must contain at least one uppercase letter",
                    "Password must contain at least one lowercase letter",
                    "Password must contain at least one special character">>
              unmet == {k \in 1..5 : ~rules[k]}
          IN
          /\ resp.ok <=> unmet = {}
          /\ resp.ok => resp.msg = "Password is valid"
          /\ ~resp.ok
             => \E k \in unmet :
                    /\ \A j \in unmet : k <= j
                    /\ resp.msg = messages[k]
    /\ ~validate_password(<<"a", "b", "c", "1", "2", "3", "4", "5">>).ok
    /\ validate_password(<<"A", "b", "c", "d", "1", "2", "3", "!">>).ok

\* C22 witness: a password of eight characters with a digit, an uppercase
\* and a lowercase letter and no symbol was refused with the message of the
\* fifth rule.
C22_Witness ==
    /\ resp.op = "validate_password" /\ ~resp.ok
    /\ resp.msg = "Password must contain at least one special character"
    /\ Len(resp.password) = 8
    /\ \E i, j, k \in 1..8 :
        /\ resp.password[i] = "1"
        /\ resp.password[j] = "A"
        /\ resp.password[k] = "a"
    /\ \A i \in 1..8 : resp.password[i] # "!"

---------------------------------------------------------------------------
\* Properties of password reset (SpecReset)

\* C23: reset_password changes a user's password only if, in the same
\* session, a password_reset OTP issued for that user's email was verified
\* after the session's most recent forgot_password request; verifying the
\* OTP of one email and then asking for another email's reset does not
\* allow that other account's password to be reset.
C23_ResetNeedsOwnOtp ==
    last.op = "reset_password"
    => \E u \in users : u.id = last.target /\ last.verified = u.email

---------------------------------------------------------------------------
\* Properties of registration (SpecAuth)

\* C24: a User row is created only by a successful verify_otp of purpose
\* registration for the row's email (the consumed OTP row is in the table);
\* every User row has is_verified true; and no two User rows share an
\* email, also when two sessions register the same email and both obtain
\* and verify an OTP.
C24_UsersVerifiedAndUnique ==
    /\ [](\A u \in users :
            /\ u.is_verified
            /\ \E r \in otps :
                r.email = u.email /\ r.purpose = "registration" /\ r.is_used)
    /\ [](\A u1, u2 \in users : u1.email = u2.email => u1 = u2)
    /\ [][\A u \in users' \ users :
            \E w \in Workers :
                /\ pc[w] = "create_user"
                /\ loc[w].pending_registration.email = u.email
                /\ \E r \in otps :
                    /\ r.email = u.email /\ r.purpose = "registration"
                    /\ r.is_used]_vars

\* C24 witness: two sessions registered the same email and both verified
\* an OTP for it; one account exists for the email, and the second
\* session's request ended with the IntegrityError.
C24_Witness ==
    /\ last.op = "verify_otp_page" /\ last.status = 500
    /\ \E u \in users :
        /\ loc[last.actor].pending_registration.email = u.email
        /\ Cardinality({r \in otps : r.email = u.email /\ r.is_used
                                     /\ r.purpose = "registration"}) = 2
        /\ Cardinality({x \in users : x.email = u.email}) = 1

\* C25: once block_student for a student has committed, every ask_question
\* of that student whose permission check runs after the commit and before
\* a later unblock_student is rejected, whatever flag the request loaded
\* with current_user; a Question is committed only by a request whose check
\* passed, and a check passes only while no BlockedUser row of the author
\* is committed, so a Question committed while its author is blocked was
\* checked before the block committed.
C25_CheckAfterBlockRejected ==
    /\ [](\A s \in Students, flag \in BOOLEAN :
            is_student_blocked(s.id)
            => AskerIsBlocked([s EXCEPT !.is_blocked = flag]))
    /\ [][\A w \in Workers :
            (pc[w] = "ask_check" /\ pc'[w] = "ask_commit")
            => ~is_student_blocked(loc[w].actor)]_vars
    /\ [][\A q \in questions' :
            (\A x \in questions : x.id # q.id)
            => \E w \in Workers :
                /\ pc[w] = "ask_commit" /\ pc'[w] = "ask_notify"
                /\ loc[w].actor = q.student_id]_vars

\* C25 witness: a Question has just been committed while a BlockedUser row
\* of its author was committed: the request had passed its check before
\* the block committed.
C25_Witness ==
    \E w \in Workers :
        /\ pc[w] = "ask_notify" /\ loc[w].blocked
        /\ \E q \in questions :
            q.id = loc[w].row /\ q.student_id = loc[w].actor
        /\ is_student_blocked(loc[w].actor)

\* C26: when two staff workers run block_student concurrently for the same
\* unblocked student, at most one call succeeds and inserts: in every
\* reachable state at most one BlockedUser row exists for a student.
C26_OneBlockPerStudent ==
    \A s \in Students :
        Cardinality({b \in blocks : b.student_id = s.id}) <= 1

\* C31: unblock_student always returns success; afterwards the student has
\* no BlockedUser row and is_blocked is false, however many rows existed
\* before, and the rows and flags of the other users are as they were.
\* When the student had no row and the flag was false, the BlockedUser
\* table and the users are left unchanged.  In every case exactly one
\* Notification of type unblock for the student is created.
C31_UnblockClearsAllRows ==
    \A s \in UserIds :
        LET o == unblock_student(s)
            rows == {b \in blocks : b.student_id = s}
            notBlocked == /\ rows = {}
                          /\ \A u \in users : u.id = s => ~u.is_blocked
            created == {n \in o.notifications : n \notin notifications}
        IN  /\ o.ok /\ o.status = 200
            /\ o.msg = "Student unblocked successfully"
            /\ o.blocks = blocks \ rows
            /\ \A u \in o.users : u.id = s => ~u.is_blocked
            /\ {u \in o.users : u.id # s} = {u \in users : u.id # s}
            /\ {u.id : u \in o.users} = {u.id : u \in users}
            /\ notBlocked => o.blocks = blocks /\ o.users = users
            /\ notifications \subseteq o.notifications
            /\ Cardinality(created) = 1
            /\ \A n \in created :
                /\ n.user_id = s /\ n.notification_type = "unblock"
                /\ n.message = UNBLOCK_MESSAGE /\ ~n.is_read

\* C31 witness: an unblock_student has just committed after deleting two
\* BlockedUser rows of one student; no row of the student is left and the
\* student's flag is false.
C31_Witness ==
    \E w \in Workers :
        /\ pc[w] = "unblock_notify"
        /\ Cardinality(loc[w].deleted) = 2
        /\ ~is_student_blocked(loc[w].target)
        /\ \E u \in users : u.id = loc[w].target /\ ~u.is_blocked

\* C32: OTP rows are separated by (email, purpose).  A verify_otp for
\* (email, purpose) that succeeds has matched an unused row of that email
\* and that purpose with the submitted code, and marks only that row; and
\* whatever create_otp or verify_otp does for (email, purpose), the rows
\* of every other email and of every other purpose are the same before and
\* after the call.
C32_SeparatedByEmailAndPurpose ==
    \A e \in Emails, p \in Purposes :
        LET Others(table) == {r \in table : r.email # e \/ r.purpose # p}
        IN  /\ \A o \in create_otp(otps,
                                   NextId(InvalidateUnused(otps, e, p)),
                                   now, e, p) :
                Others(o.table) = Others(otps)
            /\ \A c \in generate_otp :
                \A o \in verify_otp(otps, now, e, c, p) :
                    /\ Others(o.table) = Others(otps)
                    /\ o.ok =>
                        \E r \in otps :
                            /\ r.id = o.id /\ r.email = e /\ r.purpose = p
                            /\ r.otp_code = c /\ ~r.is_used
                            /\ o.table = (otps \ {r})
                                         \cup {[r EXCEPT !.is_used = TRUE]}

\* C32 witness: a verify_otp has just succeeded for one (email, purpose)
\* while an unused row with the same code, issued for another purpose or
\* another email, is in the table untouched.
C32_Witness ==
    /\ resp.op = "verify_otp" /\ resp.ok
    /\ \E r \in otps :
        /\ r.id = resp.target /\ r.is_used
        /\ r.email = resp.email /\ r.purpose = resp.purpose
    /\ \E r \in otps :
        /\ r.otp_code = resp.code /\ ~r.is_used
        /\ r.email # resp.email \/ r.purpose # resp.purpose

===========================================================================
